---- MODULE Spec2Model ----
(***************************************************************************)
(* A model of package timeofday (src/time.go): the TimeOfDay value, its    *)
(* constructors New and NewFromString, the scanner tokenizeTimeSpec, the   *)
(* resolver timeSpecTokens.Parse, and NextAfter.                           *)
(*                                                                         *)
(* Strings are sequences of one-character strings.  Instants are Unix      *)
(* seconds; a time.Time is a record [unix, loc].  A *time.Location is a    *)
(* zone name.  Errors are records with a msg field.                        *)
(***************************************************************************)
EXTENDS Integers, Sequences, FiniteSets, TLC

VARIABLES pc, call, runes, state, pos, err, tokens, result, t, after, ret

vars == <<pc, call, runes, state, pos, err, tokens, result, t, after, ret>>

\* The nil pointer and the nil error.
NIL == [nil |-> TRUE]

(***************************************************************************)
(* Package time, as far as src/time.go uses it.                            *)
(***************************************************************************)

\* Days from 1970-01-01 to the civil date y-m-d; linear in d, so a day past
\* the end of the month (after.Day()+1) rolls into the next month, as
\* time.Date normalises it.
DaysFromCivil(y, m, d) ==
    LET yy  == IF m <= 2 THEN y - 1 ELSE y
        era == yy \div 400
        yoe == yy - era * 400
        mp  == IF m > 2 THEN m - 3 ELSE m + 9
        doy == (153 * mp + 2) \div 5 + d - 1
        doe == yoe * 365 + yoe \div 4 - yoe \div 100 + doy
    IN  era * 146097 + doe - 719468

\* The civil date [year, month, day] of day number z.
CivilFromDays(z) ==
    LET zz  == z + 719468
        era == zz \div 146097
        doe == zz - era * 146097
        yoe == (doe - doe \div 1460 + doe \div 36524 - doe \div 146096) \div 365
        doy == doe - (365 * yoe + yoe \div 4 - yoe \div 100)
        mp  == (5 * doy + 2) \div 153
        d   == doy - (153 * mp + 2) \div 5 + 1
        m   == IF mp < 10 THEN mp + 3 ELSE mp - 9
        y   == yoe + era * 400
    IN  [year |-> IF m <= 2 THEN y + 1 ELSE y, month |-> m, day |-> d]

\* The zones of the model.  time.UTC; America/New_York with its rules for the
\* year 2000 (EST -5h, EDT -4h from 2000-04-02 07:00 UTC until 2000-10-29
\* 06:00 UTC); and the machine's time.Local, here a fixed +01:00 zone.
UTC == "UTC"
NewYork == "America/New_York"
Local == "Local"
\* The nil *time.Location.
NilLocation == "nil"
Zones == {UTC, NewYork, Local}

DSTStart == DaysFromCivil(2000, 4, 2) * 86400 + 7 * 3600
DSTEnd == DaysFromCivil(2000, 10, 29) * 86400 + 6 * 3600

\* The offsets (seconds east of UTC) a zone ever uses.
ZoneOffsets(l) ==
    CASE l = UTC     -> {0}
      [] l = NewYork -> {-5 * 3600, -4 * 3600}
      [] l = Local   -> {3600}

\* The offset in force in zone l at instant u.
Offset(l, u) ==
    CASE l = UTC     -> 0
      [] l = NewYork -> IF DSTStart <= u /\ u < DSTEnd THEN -4 * 3600 ELSE -5 * 3600
      [] l = Local   -> 3600

\* Seconds since 1970-01-01 00:00 of the wall clock that x shows in its zone.
WallClock(x) == x.unix + Offset(x.loc, x.unix)

\* time.Time's Year, Month, Day, Hour, Minute, Second: read in x's own zone.
TimeYear(x) == CivilFromDays(WallClock(x) \div 86400).year
TimeMonth(x) == CivilFromDays(WallClock(x) \div 86400).month
TimeDay(x) == CivilFromDays(WallClock(x) \div 86400).day
TimeHour(x) == (WallClock(x) % 86400) \div 3600
TimeMinute(x) == (WallClock(x) % 3600) \div 60
TimeSecond(x) == WallClock(x) % 60

\* time.Time.In: the same instant, shown in zone l.
In(x, l) == [unix |-> x.unix, loc |-> l]

\* time.Time.Before: instants compare whatever zone each is shown in.
Before(x, y) == x.unix < y.unix

\* time.Date(y, m, d, h, mi, s, 0, l): the set of instants it may return.  The
\* wall clock names one instant, except across a zone transition: there it is
\* skipped or repeated, and Date "returns a time that is correct in one of the
\* two zones involved in the transition, but it does not guarantee which".
Date(y, m, d, h, mi, s, l) ==
    LET wall  == DaysFromCivil(y, m, d) * 86400 + h * 3600 + mi * 60 + s
        exact == {o \in ZoneOffsets(l) : Offset(l, wall - o) = o}
        offs  == IF exact # {} THEN exact ELSE ZoneOffsets(l)
    IN  {[unix |-> wall - o, loc |-> l] : o \in offs}

(***************************************************************************)
(* TimeOfDay and New.                                                      *)
(***************************************************************************)

\* New with the minute's upper bound off by one.
New_MinuteUpTo60(hour, minute, loc) ==
    IF hour < 0 \/ hour > 24
    THEN [tod |-> NIL, err |-> [msg |-> "Hour integer must be between 0 and 24, inclusive"]]
    ELSE IF minute < 0 \/ minute > 60
    THEN [tod |-> NIL, err |-> [msg |-> "Minute integer must be between 0 and 59, inclusive"]]
    ELSE [tod |-> [hour   |-> hour % 24,
                   minute |-> minute,
                   loc    |-> IF loc = NilLocation THEN Local ELSE loc],
          err |-> NIL]

\* New without hour %= 24.
New_NoModulo(hour, minute, loc) ==
    IF hour < 0 \/ hour > 24
    THEN [tod |-> NIL, err |-> [msg |-> "Hour integer must be between 0 and 24, inclusive"]]
    ELSE IF minute < 0 \/ minute > 59
    THEN [tod |-> NIL, err |-> [msg |-> "Minute integer must be between 0 and 59, inclusive"]]
    ELSE [tod |-> [hour   |-> hour,
                   minute |-> minute,
                   loc    |-> IF loc = NilLocation THEN Local ELSE loc],
          err |-> NIL]

\* New (src/time.go:16): the pair (*TimeOfDay, error) it returns.
New(hour, minute, loc) ==
    IF hour < 0 \/ hour > 24
    THEN [tod |-> NIL, err |-> [msg |-> "Hour integer must be between 0 and 24, inclusive"]]
    ELSE IF minute < 0 \/ minute > 59
    THEN [tod |-> NIL, err |-> [msg |-> "Minute integer must be between 0 and 59, inclusive"]]
    ELSE [tod |-> [hour   |-> hour % 24,
                   minute |-> minute,
                   loc    |-> IF loc = NilLocation THEN Local ELSE loc],
          err |-> NIL]

\* Hour with the date built in UTC instead of the TimeOfDay's zone and read
\* in the zone.
Hour_DateInUTC(tod) ==
    {TimeHour(In(x, tod.loc)) : x \in Date(2006, 1, 2, tod.hour, tod.minute, 0, UTC)}

\* TimeOfDay.Hour and Minute: the readings of time.Date(2006, January, 2, ...).
Hour(tod) == {TimeHour(x) : x \in Date(2006, 1, 2, tod.hour, tod.minute, 0, tod.loc)}
Minute(tod) == {TimeMinute(x) : x \in Date(2006, 1, 2, tod.hour, tod.minute, 0, tod.loc)}

\* TimeOfDay.Location.
Location(tod) == tod.loc

\* NextAfter with the first candidate built in the month after the reference's.
NextAfter_MonthOffByOne(tod, aft) ==
    UNION { IF Before(r0, aft)
            THEN Date(TimeYear(aft), TimeMonth(aft), TimeDay(aft) + 1,
                      tod.hour, tod.minute, 0, tod.loc)
            ELSE {r0}
          : r0 \in Date(TimeYear(aft), TimeMonth(aft) + 1, TimeDay(aft),
                        tod.hour, tod.minute, 0, tod.loc) }

\* NextAfter with a first candidate equal to the reference taken for passed.
NextAfter_NotAfter(tod, aft) ==
    UNION { IF ~Before(aft, r0)
            THEN Date(TimeYear(aft), TimeMonth(aft), TimeDay(aft) + 1,
                      tod.hour, tod.minute, 0, tod.loc)
            ELSE {r0}
          : r0 \in Date(TimeYear(aft), TimeMonth(aft), TimeDay(aft),
                        tod.hour, tod.minute, 0, tod.loc) }

\* TimeOfDay.NextAfter: the set of instants it may return (one, except where
\* time.Date is not unique).
NextAfter(tod, aft) ==
    UNION { IF Before(r0, aft)
            THEN Date(TimeYear(aft), TimeMonth(aft), TimeDay(aft) + 1,
                      tod.hour, tod.minute, 0, tod.loc)
            ELSE {r0}
          : r0 \in Date(TimeYear(aft), TimeMonth(aft), TimeDay(aft),
                        tod.hour, tod.minute, 0, tod.loc) }

(***************************************************************************)
(* Strings: strings.ToUpper, strings.TrimSpace, strconv.Atoi.              *)
(***************************************************************************)

Digits == <<"0", "1", "2", "3", "4", "5", "6", "7", "8", "9">>

\* unicode.ToUpper on the letters the inputs use; every other rune is kept.
UpperRune(c) ==
    CASE c = "a" -> "A"
      [] c = "p" -> "P"
      [] c = "m" -> "M"
      [] c = "f" -> "F"
      [] c = "x" -> "X"
      [] OTHER   -> c

ToUpper(s) == [i \in 1..Len(s) |-> UpperRune(s[i])]

\* unicode.ToLower and strings.ToLower, likewise.
LowerRune(c) ==
    CASE c = "A" -> "a"
      [] c = "P" -> "p"
      [] c = "M" -> "m"
      [] c = "F" -> "f"
      [] c = "X" -> "x"
      [] OTHER   -> c

ToLower(s) == [i \in 1..Len(s) |-> LowerRune(s[i])]

\* unicode.IsSpace on the runes the inputs use.
IsSpace(c) == c \in {" ", "\t", "\n"}

RECURSIVE TrimLeft(_)
TrimLeft(s) == IF s # <<>> /\ IsSpace(Head(s)) THEN TrimLeft(Tail(s)) ELSE s

RECURSIVE TrimRight(_)
TrimRight(s) ==
    IF s # <<>> /\ IsSpace(s[Len(s)]) THEN TrimRight(SubSeq(s, 1, Len(s) - 1)) ELSE s

TrimSpace(s) == TrimRight(TrimLeft(s))

\* The value of a decimal digit, and -1 for any other rune.
DigitVal(c) ==
    IF \E i \in 1..10 : Digits[i] = c
    THEN (CHOOSE i \in 1..10 : Digits[i] = c) - 1
    ELSE -1

RECURSIVE DecimalValue(_)
DecimalValue(s) ==
    IF s = <<>> THEN 0
    ELSE 10 * DecimalValue(SubSeq(s, 1, Len(s) - 1)) + DigitVal(s[Len(s)])

\* strconv.Atoi on a string without sign: (value, error).
Atoi(s) ==
    IF s = <<>> \/ \E i \in 1..Len(s) : DigitVal(s[i]) < 0
    THEN [val |-> 0, err |-> [msg |-> "invalid syntax"]]
    ELSE [val |-> DecimalValue(s), err |-> NIL]

(***************************************************************************)
(* The scanner tokenizeTimeSpec and the resolver timeSpecTokens.Parse.     *)
(***************************************************************************)

\* validRune (src/time.go:150): nil, or the error naming c and the valid runes.
validRune(c, valid) ==
    IF \E i \in 1..Len(valid) : valid[i] = c
    THEN NIL
    ELSE [msg |-> "Invalid rune", rune |-> c, expected |-> valid]

\* wrapErrPosition (src/time.go:59).
wrapErrPosition(e, position) ==
    [msg |-> "Parse error at position", position |-> position, err |-> e]

\* The runes each case of the switch hands to validRune (cases 0 to 6).
ValidRunes(st) ==
    CASE st = 0 -> Digits
      [] st = 1 -> Digits \o <<":", " ", "A", "P">>
      [] st = 2 -> <<":", " ", "A", "P">>
      [] st = 3 -> <<"0", "1", "2", "3", "4", "5">>
      [] st = 4 -> Digits
      [] st = 5 -> <<" ", "A", "P">>
      [] st = 6 -> <<"M">>

\* The scanner's locals at loop entry (src/time.go:52-58).
ScanInit == [state  |-> 0,
             pos    |-> 0,
             err    |-> NIL,
             tokens |-> [Hour |-> <<>>, Minute |-> <<>>, Meridiem |-> <<>>],
             ret    |-> NIL]

\* The end of an iteration that consumed the rune (src/time.go:135-136), with
\* tokens as the case left them.
Consume(s, tk) == [s EXCEPT !.pos = s.pos + 1, !.state = s.state + 1, !.tokens = tk]

\* case 0: the hour's first digit.
CaseHour(s, c) == Consume(s, [s.tokens EXCEPT !.Hour = <<c>>])

\* case 1: the hour's second digit, or a look ahead to case 2.
CaseHourOrSeparator(s, c) ==
    IF c = ":" \/ c = " " \/ c = "A" \/ c = "P"
    THEN [s EXCEPT !.state = 2]
    ELSE Consume(s, [s.tokens EXCEPT !.Hour = s.tokens.Hour \o <<c>>])

\* case 2 going back to case 1 when the rune is not the colon.
CaseColon_BackToHour(s, c) ==
    IF c # ":"
    THEN [s EXCEPT !.state = 1]
    ELSE Consume(s, s.tokens)

\* case 2: the colon, or a look ahead to case 5.
CaseColon(s, c) ==
    IF c # ":"
    THEN [s EXCEPT !.state = 5]
    ELSE Consume(s, s.tokens)

\* case 3: the minute's first digit.
CaseMinuteFirst(s, c) == Consume(s, [s.tokens EXCEPT !.Minute = <<c>>])

\* case 4: the minute's second digit.
CaseMinuteSecond(s, c) ==
    Consume(s, [s.tokens EXCEPT !.Minute = s.tokens.Minute \o <<c>>])

\* case 5 skipping a space without moving the cursor.
CaseMeridiem1_SpaceKeepsPos(s, c) ==
    IF c = " "
    THEN s
    ELSE Consume(s, [s.tokens EXCEPT !.Meridiem = s.tokens.Meridiem \o <<c>>])

\* case 5: a space to skip, or the meridiem's first letter.
CaseMeridiem1(s, c) ==
    IF c = " "
    THEN [s EXCEPT !.pos = s.pos + 1]
    ELSE Consume(s, [s.tokens EXCEPT !.Meridiem = s.tokens.Meridiem \o <<c>>])

\* case 6: the meridiem's M.
CaseMeridiem2(s, c) ==
    Consume(s, [s.tokens EXCEPT !.Meridiem = s.tokens.Meridiem \o <<"M">>])

\* case 7 passing over the rune instead of failing.
CaseTooMuch_SkipsRune(s, c) == [s EXCEPT !.pos = s.pos + 1]

\* case 7: any further rune (src/time.go:132-133).
CaseTooMuch(s, c) ==
    [s EXCEPT !.ret = [tokens |-> NIL,
                       err |-> [msg |-> "Extra character", rune |-> c,
                                expected |-> "<end>"]]]

\* The switch after the loop without state 4 in its first case.
EndOfInput_NoCase4(s) ==
    CASE s.state \in {0, 3} ->
            [s EXCEPT !.ret = [tokens |-> NIL,
                               err |-> [msg |-> "Unexpected end of input",
                                        expected |-> "number"]]]
      [] s.state = 6 ->
            [s EXCEPT !.ret = [tokens |-> NIL,
                               err |-> [msg |-> "Unexpected end of input",
                                        expected |-> "M"]]]
      [] OTHER ->
            [s EXCEPT !.ret = [tokens |-> s.tokens, err |-> s.err]]

\* The switch after the loop (src/time.go:139-147).
EndOfInput(s) ==
    CASE s.state \in {0, 3, 4} ->
            [s EXCEPT !.ret = [tokens |-> NIL,
                               err |-> [msg |-> "Unexpected end of input",
                                        expected |-> "number"]]]
      [] s.state = 6 ->
            [s EXCEPT !.ret = [tokens |-> NIL,
                               err |-> [msg |-> "Unexpected end of input",
                                        expected |-> "M"]]]
      [] OTHER ->
            [s EXCEPT !.ret = [tokens |-> s.tokens, err |-> s.err]]

\* One iteration of the loop (src/time.go:63-137) on the locals s, or, when
\* pos has reached the end, the switch after the loop (src/time.go:139-147).
\* ret is NIL while the loop runs and the returned pair (tokens, error) after.
ScanStep(rs, s) ==
    IF s.pos >= Len(rs)
    THEN EndOfInput(s)
    ELSE LET c == rs[s.pos + 1]
             e == IF s.state <= 6 THEN validRune(c, ValidRunes(s.state)) ELSE NIL
         IN  IF s.state = 7
             THEN CaseTooMuch(s, c)
             ELSE IF e # NIL
             THEN [s EXCEPT !.err = e,
                            !.ret = [tokens |-> NIL, err |-> wrapErrPosition(e, s.pos)]]
             ELSE CASE s.state = 0 -> CaseHour(s, c)
                    [] s.state = 1 -> CaseHourOrSeparator(s, c)
                    [] s.state = 2 -> CaseColon(s, c)
                    [] s.state = 3 -> CaseMinuteFirst(s, c)
                    [] s.state = 4 -> CaseMinuteSecond(s, c)
                    [] s.state = 5 -> CaseMeridiem1(s, c)
                    [] s.state = 6 -> CaseMeridiem2(s, c)

RECURSIVE ScanRun(_, _)
ScanRun(rs, s) == IF s.ret # NIL THEN s.ret ELSE ScanRun(rs, ScanStep(rs, s))

\* Normalise without the case folding.
Normalise_NoUpper(spec) == TrimSpace(spec)

\* The runes the scanner reads (src/time.go:53).
Normalise(spec) == TrimSpace(ToUpper(spec))

\* tokenizeTimeSpec (src/time.go:51): the pair (*timeSpecTokens, error).
tokenizeTimeSpec(spec) == ScanRun(Normalise(spec), ScanInit)

\* Parse adding 12 to every PM hour, 12 included.
Parse_PMAlwaysAdds12(tk, loc) ==
    LET h == Atoi(tk.Hour)
        m == Atoi(tk.Minute)
        hour == h.val
        minute == m.val
    IN  IF h.err # NIL
        THEN [tod |-> NIL, err |-> [msg |-> "Could not parse hour as integer"]]
        ELSE IF m.err # NIL
        THEN [tod |-> NIL, err |-> [msg |-> "Could not parse minute as integer"]]
        ELSE IF tk.Meridiem # <<>> /\ hour = 0
        THEN [tod |-> NIL, err |-> [msg |-> "Cannot have meridiem and hour value of 0"]]
        ELSE CASE tk.Meridiem = <<>> -> New(hour, minute, loc)
               [] tk.Meridiem = <<"A", "M">> ->
                    New(IF hour = 12 THEN 0 ELSE hour, minute, loc)
               [] tk.Meridiem = <<"P", "M">> ->
                    IF hour > 12
                    THEN [tod |-> NIL,
                          err |-> [msg |-> "Cannot have hour greater than 12 with meridiem PM"]]
                    ELSE New(hour + 12, minute, loc)
               [] OTHER -> [tod |-> NIL, err |-> [msg |-> "Unknown meridiem spec"]]

\* timeSpecTokens.Parse (src/time.go:164): the pair (*TimeOfDay, error).
Parse(tk, loc) ==
    LET h == Atoi(tk.Hour)
        m == Atoi(tk.Minute)
        hour == h.val
        minute == m.val
    IN  IF h.err # NIL
        THEN [tod |-> NIL, err |-> [msg |-> "Could not parse hour as integer"]]
        ELSE IF m.err # NIL
        THEN [tod |-> NIL, err |-> [msg |-> "Could not parse minute as integer"]]
        ELSE IF tk.Meridiem # <<>> /\ hour = 0
        THEN [tod |-> NIL, err |-> [msg |-> "Cannot have meridiem and hour value of 0"]]
        ELSE CASE tk.Meridiem = <<>> -> New(hour, minute, loc)
               [] tk.Meridiem = <<"A", "M">> ->
                    New(IF hour = 12 THEN 0 ELSE hour, minute, loc)
               [] tk.Meridiem = <<"P", "M">> ->
                    IF hour > 12
                    THEN [tod |-> NIL,
                          err |-> [msg |-> "Cannot have hour greater than 12 with meridiem PM"]]
                    ELSE New(IF hour # 12 THEN hour + 12 ELSE hour, minute, loc)
               [] OTHER -> [tod |-> NIL, err |-> [msg |-> "Unknown meridiem spec"]]

\* NewFromString answering a scanner error with midnight instead of the error.
FromTokens_DefaultOnError(tr, loc) ==
    IF tr.err # NIL THEN New(0, 0, loc) ELSE Parse(tr.tokens, loc)

\* What NewFromString returns once tokenizeTimeSpec has returned tr
\* (src/time.go:38-42).
FromTokens(tr, loc) ==
    IF tr.err # NIL THEN [tod |-> NIL, err |-> tr.err] ELSE Parse(tr.tokens, loc)

\* NewFromString (src/time.go:36): the pair (*TimeOfDay, error).
NewFromString(timeSpec, loc) == FromTokens(tokenizeTimeSpec(timeSpec), loc)

(***************************************************************************)
(* The inputs the callers of the model draw from.                          *)
(***************************************************************************)

\* Longest input string enumerated in full over Alphabet.
MaxLen == 4
\* Most spaces put around a shaped input, and between its minute and meridiem.
MaxPad == 1

Alphabet == {"0", "1", ":", " ", "A", "P", "M", "p"}

RECURSIVE StringsOfLen(_)
StringsOfLen(n) ==
    IF n = 0 THEN {<<>>}
    ELSE {s \o <<c>> : s \in StringsOfLen(n - 1), c \in Alphabet}

ShortStrings == UNION {StringsOfLen(n) : n \in 0..MaxLen}

Spaces(n) == [i \in 1..n |-> " "]

HourTexts == {<<>>, <<"0">>, <<"3">>, <<"0", "3">>, <<"1", "1">>, <<"1", "2">>,
              <<"1", "3">>, <<"2", "3">>, <<"2", "4">>, <<"2", "5">>,
              <<"0", "0", "3">>}
MinuteTexts == {<<>>, <<"9">>, <<"0", "0">>, <<"0", "9">>, <<"5", "9">>,
                <<"6", "0">>, <<"0", "0", "9">>}
MeridiemTexts == {<<>>, <<"A", "M">>, <<"P", "M">>, <<"p", "m">>,
                  <<"A">>, <<"M">>, <<"F", "M">>}
TailTexts == {<<>>, <<"x">>}

\* Inputs shaped like a time specification, right and wrong in each part.
ShapedStrings ==
    {Spaces(lead) \o h \o sep \o m \o Spaces(gap) \o mer \o tl \o Spaces(lead) :
        lead \in 0..MaxPad, h \in HourTexts, sep \in {<<>>, <<":">>},
        m \in MinuteTexts, gap \in 0..MaxPad, mer \in MeridiemTexts,
        tl \in TailTexts}

\* The zone arguments: nil, time.UTC, America/New_York.
Locs == {NilLocation, UTC, NewYork}

NewHours == -1..25
NewMinutes == -1..60

\* The minutes of the TimeOfDay values asked for their next occurrence.
AskMinutes == {0, 30, 59}

\* The reference instants: every wall clock of RefClocks on every day of
\* RefDates, as time.Date builds it in each zone.
RefDates == {<<1999, 12, 31>>, <<2000, 2, 28>>, <<2000, 4, 1>>, <<2000, 4, 2>>,
             <<2000, 10, 29>>}
RefHours == {0, 1, 2, 3, 5, 12, 19, 22, 23}
RefClocks == {<<h, ms[1], ms[2]>> : h \in RefHours, ms \in {<<0, 0>>, <<30, 0>>, <<30, 1>>}}
RefTimes == UNION {Date(d[1], d[2], d[3], c[1], c[2], c[3], l) :
                      d \in RefDates, c \in RefClocks, l \in Zones}

(***************************************************************************)
(* The state machine: a caller constructs a TimeOfDay, directly or from a  *)
(* string, and asks a constructed one for its next occurrence.             *)
(***************************************************************************)

NoResult == [tod |-> NIL, err |-> NIL]

Init ==
    /\ pc = "idle"
    /\ call = [op |-> "none"]
    /\ runes = <<>>
    /\ state = ScanInit.state
    /\ pos = ScanInit.pos
    /\ err = ScanInit.err
    /\ tokens = ScanInit.tokens
    /\ result = NoResult
    /\ t = NIL
    /\ after = NIL
    /\ ret = NIL

\* New(hour, minute, loc), called and returned.
CallNew(hour, minute, loc) ==
    /\ pc = "idle"
    /\ call' = [op |-> "New", hour |-> hour, minute |-> minute, loc |-> loc]
    /\ result' = New(hour, minute, loc)
    /\ pc' = "returned"
    /\ UNCHANGED <<runes, state, pos, err, tokens, t, after, ret>>

\* NewFromString(timeSpec, loc) enters tokenizeTimeSpec (src/time.go:52-58).
CallNewFromString(timeSpec, loc) ==
    /\ pc = "idle"
    /\ call' = [op |-> "NewFromString", timeSpec |-> timeSpec, loc |-> loc]
    /\ runes' = Normalise(timeSpec)
    /\ state' = ScanInit.state
    /\ pos' = ScanInit.pos
    /\ err' = ScanInit.err
    /\ tokens' = ScanInit.tokens
    /\ pc' = "scan"
    /\ UNCHANGED <<result, t, after, ret>>

\* The scanner's locals as a record, and their next value.
Locals == [state |-> state, pos |-> pos, err |-> err, tokens |-> tokens, ret |-> NIL]
Stepped == ScanStep(runes, Locals)

\* One iteration of the scanner's loop that stays in the loop.
ScanLoop ==
    /\ pc = "scan"
    /\ Stepped.ret = NIL
    /\ state' = Stepped.state
    /\ pos' = Stepped.pos
    /\ err' = Stepped.err
    /\ tokens' = Stepped.tokens
    /\ UNCHANGED <<pc, call, runes, result, t, after, ret>>

\* The scanner returns, from inside the loop or after it, and NewFromString
\* returns in turn, through Parse and New when the scanner succeeded.  tokens
\* and err become the pair NewFromString received (src/time.go:37); state and
\* pos stay as the scanner left them.
ScanReturn ==
    /\ pc = "scan"
    /\ Stepped.ret # NIL
    /\ tokens' = Stepped.ret.tokens
    /\ err' = Stepped.ret.err
    /\ result' = FromTokens(Stepped.ret, call.loc)
    /\ pc' = "returned"
    /\ UNCHANGED <<call, runes, state, pos, t, after, ret>>

\* NextAfter(aft) on the TimeOfDay just constructed; the constructor's frame
\* is gone by then.
CallNextAfter(aft) ==
    /\ pc = "returned"
    /\ result.tod # NIL
    /\ t' = result.tod
    /\ after' = aft
    /\ ret' \in NextAfter(result.tod, aft)
    /\ pc' = "next"
    /\ call' = [op |-> "NextAfter"]
    /\ runes' = <<>>
    /\ state' = ScanInit.state
    /\ pos' = ScanInit.pos
    /\ err' = ScanInit.err
    /\ tokens' = ScanInit.tokens
    /\ result' = NoResult

\* NextAfter again on the same TimeOfDay, with the instant the first call
\* returned as the reference.
CallNextAfterAgain ==
    /\ pc = "next"
    /\ after' = ret
    /\ ret' \in NextAfter(t, ret)
    /\ pc' = "again"
    /\ UNCHANGED <<call, runes, state, pos, err, tokens, result, t>>

\* A caller at rest constructs a TimeOfDay from integers.
ConstructFromIntegers ==
    /\ pc = "idle"
    /\ \E hour \in NewHours, minute \in NewMinutes, loc \in Locs :
          CallNew(hour, minute, loc)

\* A caller at rest constructs a TimeOfDay from a string.
ConstructFromString ==
    /\ pc = "idle"
    /\ \E in \in (ShortStrings \X {UTC}) \cup (ShapedStrings \X Locs) :
          CallNewFromString(in[1], in[2])

\* A caller holding a TimeOfDay asks for its next occurrence.
AskNextAfter ==
    /\ pc = "returned"
    /\ result.tod # NIL
    /\ result.tod.minute \in AskMinutes
    /\ \E aft \in RefTimes : CallNextAfter(aft)

Next ==
    \/ ConstructFromIntegers
    \/ ConstructFromString
    \/ ScanLoop
    \/ ScanReturn
    \/ AskNextAfter
    \/ CallNextAfterAgain

Spec == Init /\ [][Next]_vars

\* A caller at rest constructs a TimeOfDay from a string, in UTC: the scanner
\* never reads the zone.
ConstructFromStringUTC ==
    /\ pc = "idle"
    /\ \E timeSpec \in ShortStrings \cup ShapedStrings :
          CallNewFromString(timeSpec, UTC)

\* One call of NewFromString run to its return: once called, tokenizeTimeSpec
\* keeps executing, so an iteration or a return that can be taken is taken.
ScanNext ==
    \/ ConstructFromStringUTC
    \/ ScanLoop
    \/ ScanReturn

ScanSpec ==
    /\ Init
    /\ [][ScanNext]_vars
    /\ WF_vars(ScanLoop)
    /\ WF_vars(ScanReturn)

(***************************************************************************)
(* Properties.                                                             *)
(***************************************************************************)

\* A call of op has returned.
Returned(op) == pc = "returned" /\ call.op = op

\* NextAfter has returned ret for the receiver t and the reference after.
NextReturned == pc = "next"

\* The reading <<hour, minute, second>> of instant x in zone l.
Reading(x, l) == <<TimeHour(In(x, l)), TimeMinute(In(x, l)), TimeSecond(In(x, l))>>

\* x is an occurrence of tod: its wall clock in tod's zone is hour:minute:00.
IsOccurrence(tod, x) == Reading(x, tod.loc) = <<tod.hour, tod.minute, 0>>

\* The occurrences of tod at or after instant lo and before instant hi: an
\* occurrence is hour:minute:00 of some day, less an offset of the zone.
OccurrencesBetween(tod, lo, hi) ==
    {u \in {d * 86400 + tod.hour * 3600 + tod.minute * 60 - o :
               d \in ((lo \div 86400) - 2)..((hi \div 86400) + 2),
               o \in ZoneOffsets(tod.loc)} :
        /\ lo <= u
        /\ u < hi
        /\ IsOccurrence(tod, [unix |-> u, loc |-> tod.loc])}

\* NextAfter took its following-day branch: a first candidate was before after.
FollowingDayTaken ==
    /\ NextReturned
    /\ \E r0 \in Date(TimeYear(after), TimeMonth(after), TimeDay(after),
                      t.hour, t.minute, 0, t.loc) : Before(r0, after)
    /\ ret \in Date(TimeYear(after), TimeMonth(after), TimeDay(after) + 1,
                    t.hour, t.minute, 0, t.loc)

\* C1: whatever zone the reference is expressed in, NextAfter never returns an
\* instant strictly before the reference.
C1_NotBeforeReference ==
    NextReturned => ~Before(ret, after)

\* C2: whatever zone the reference is expressed in, NextAfter returns an
\* instant at most 24 hours after the reference.
C2_WithinADay ==
    NextReturned => ret.unix <= after.unix + 24 * 3600

\* C3: NextAfter returns the next occurrence of t: an instant at or after the
\* reference that reads t.hour:t.minute:00 in t's zone, with no such instant
\* between the reference and it.
C3_NextOccurrence ==
    NextReturned =>
        /\ ~Before(ret, after)
        /\ IsOccurrence(t, ret)
        /\ OccurrencesBetween(t, after.unix, ret.unix) = {}

\* C4: the instant NextAfter returns, read in t's zone, has hour t.Hour(),
\* minute t.Minute() and zero seconds, on either branch.
C4_ReadsHourMinute ==
    NextReturned =>
        /\ Hour(t) = {TimeHour(In(ret, t.loc))}
        /\ Minute(t) = {TimeMinute(In(ret, t.loc))}
        /\ TimeSecond(In(ret, t.loc)) = 0

\* C5: New(hour, minute, loc) succeeds exactly when 0 <= hour <= 24 and
\* 0 <= minute <= 59; otherwise it returns an error and a nil TimeOfDay.
C5_NewRange ==
    Returned("New") =>
        IF call.hour \in 0..24 /\ call.minute \in 0..59
        THEN result.err = NIL /\ result.tod # NIL
        ELSE result.err # NIL /\ result.tod = NIL

C5_Witness ==
    /\ Returned("New")
    /\ call.hour = 24
    /\ call.minute = 60
    /\ result.tod = NIL
    /\ result.err # NIL

\* C6: for h in 0..23 and m in 0..59, New(h, m, zone).Hour() is h and
\* .Minute() is m; New(24, m, zone).Hour() is 0 and .Minute() is m.
C6_RoundTrip ==
    Returned("New") /\ result.err = NIL =>
        /\ Hour(result.tod) = {IF call.hour = 24 THEN 0 ELSE call.hour}
        /\ Minute(result.tod) = {call.minute}

C6_Witness ==
    /\ Returned("New")
    /\ call.hour = 24
    /\ call.minute = 9
    /\ call.loc = NewYork
    /\ Hour(result.tod) = {0}
    /\ Minute(result.tod) = {9}

\* The hour the resolver hands to New for hour value h and meridiem mer.
ResolvedHour(h, mer) ==
    CASE mer = <<>> -> h
      [] mer = <<"A", "M">> -> IF h = 12 THEN 0 ELSE h
      [] mer = <<"P", "M">> -> IF h = 12 THEN 12 ELSE h + 12

\* C7: for tokens with hour value h, minute value m and meridiem mer, the
\* resolver fails when a meridiem comes with hour 0, and when PM comes with an
\* hour above 12; otherwise it returns what New returns for the hour h (no
\* meridiem), 0 (12 AM), h (AM), 12 (12 PM) or h + 12 (PM) and the minute
\* unchanged.
C7_Resolve ==
    /\ Returned("NewFromString")
    /\ err = NIL
    /\ Atoi(tokens.Hour).err = NIL
    /\ Atoi(tokens.Minute).err = NIL
    /\ tokens.Meridiem \in {<<>>, <<"A", "M">>, <<"P", "M">>}
    =>  LET h   == DecimalValue(tokens.Hour)
            m   == DecimalValue(tokens.Minute)
            mer == tokens.Meridiem
        IN  IF (mer # <<>> /\ h = 0) \/ (mer = <<"P", "M">> /\ h > 12)
            THEN result.tod = NIL /\ result.err # NIL
            ELSE result = New(ResolvedHour(h, mer), m, call.loc)

C7_Witness ==
    /\ Returned("NewFromString")
    /\ err = NIL
    /\ tokens = [Hour |-> <<"3">>, Minute |-> <<"0", "9">>, Meridiem |-> <<"P", "M">>]
    /\ result = New(15, 9, call.loc)
    /\ result.tod.hour = 15

\* C8: every TimeOfDay a successful New or NewFromString returns stores an
\* hour in 0..23 and a minute in 0..59, and Hour() and Minute() return values
\* in those ranges.
C8_Canonical ==
    pc = "returned" /\ result.tod # NIL =>
        /\ result.tod.hour \in 0..23
        /\ result.tod.minute \in 0..59
        /\ Hour(result.tod) \subseteq 0..23
        /\ Minute(result.tod) \subseteq 0..59

C8_Witness ==
    /\ Returned("NewFromString")
    /\ call.timeSpec = <<"2", "4", ":", "5", "9">>
    /\ result.tod # NIL
    /\ result.tod.hour = 0
    /\ result.tod.minute = 59

\* C9: NewFromString returns a TimeOfDay and a nil error, or a nil TimeOfDay
\* and an error; an error of the scanner is the error returned.
C9_AllOrNothing ==
    Returned("NewFromString") =>
        /\ \/ result.tod # NIL /\ result.err = NIL
           \/ result.tod = NIL /\ result.err # NIL
        /\ err # NIL => result.err = err

C9_Witness ==
    /\ Returned("NewFromString")
    /\ call.timeSpec = <<"2", "5", ":", "0", "9">>
    /\ err = NIL
    /\ result.tod = NIL
    /\ result.err # NIL

\* Two returns of a constructor agree: both fail, or both succeed with the
\* same hour and minute.
SameOutcome(a, b) ==
    /\ (a.err = NIL) = (b.err = NIL)
    /\ (a.tod = NIL) = (b.tod = NIL)
    /\ a.tod # NIL /\ b.tod # NIL =>
          a.tod.hour = b.tod.hour /\ a.tod.minute = b.tod.minute

\* C10: NewFromString returns the same outcome for a string, for the string
\* with spaces added around it, and for the string with its letters
\* lower-cased.
C10_TrimAndCase ==
    Returned("NewFromString") =>
        /\ SameOutcome(result,
              NewFromString(<<" ">> \o call.timeSpec \o <<" ", " ">>, call.loc))
        /\ SameOutcome(result, NewFromString(ToLower(call.timeSpec), call.loc))

C10_Witness ==
    /\ Returned("NewFromString")
    /\ call.timeSpec = <<" ", "3", ":", "0", "9", " ", "p", "m", " ">>
    /\ result.tod # NIL
    /\ result.tod.hour = 15
    /\ result.tod.minute = 9

\* C11: when the instant NextAfter returned is the reference of a second call
\* on the same TimeOfDay, the second result is at or after that instant and at
\* most 24 hours after it.
C11_Idempotence ==
    pc = "again" =>
        /\ ~Before(ret, after)
        /\ ret.unix <= after.unix + 24 * 3600

\* A second call whose result is a full 24 hours after the first result: 01:30
\* on the day New York leaves daylight time, read the second time.
C11_Witness ==
    /\ pc = "again"
    /\ t.loc = NewYork
    /\ IsOccurrence(t, after)
    /\ ret.unix = after.unix + 24 * 3600

\* C12: when the reference, in whatever zone it is expressed, reads exactly
\* t.hour:t.minute:00 in t's zone, NextAfter returns the reference itself.
C12_ReferenceIsOccurrence ==
    NextReturned /\ IsOccurrence(t, after) => ret.unix = after.unix

\* s is made of n decimal digits.
IsDigits(s, n) == Len(s) = n /\ \A i \in 1..Len(s) : DigitVal(s[i]) >= 0

\* C13: whenever tokenizeTimeSpec returns success, Hour is 1 or 2 decimal
\* digits, Minute is exactly 2 decimal digits of which the first is 0..5, and
\* Meridiem is "", "AM" or "PM"; so Atoi fails on neither Hour nor Minute.
C13_CompleteTriple ==
    Returned("NewFromString") /\ err = NIL =>
        /\ IsDigits(tokens.Hour, 1) \/ IsDigits(tokens.Hour, 2)
        /\ IsDigits(tokens.Minute, 2)
        /\ DigitVal(tokens.Minute[1]) <= 5
        /\ tokens.Meridiem \in {<<>>, <<"A", "M">>, <<"P", "M">>}
        /\ Atoi(tokens.Hour).err = NIL
        /\ Atoi(tokens.Minute).err = NIL

RECURSIVE SkipSpaces(_)
\* s without its leading spaces.
SkipSpaces(s) == IF s # <<>> /\ Head(s) = " " THEN SkipSpaces(Tail(s)) ELSE s

\* rs has the shape D D? ':' [0-5] D, then nothing or spaces and AM or PM, and
\* its hour value is at most 24, not 0 with a meridiem, at most 12 with PM.
InLanguage(rs) ==
    \E n \in 1..2 :
        /\ Len(rs) >= n + 3
        /\ IsDigits(SubSeq(rs, 1, n), n)
        /\ rs[n + 1] = ":"
        /\ DigitVal(rs[n + 2]) \in 0..5
        /\ DigitVal(rs[n + 3]) \in 0..9
        /\ LET h    == DecimalValue(SubSeq(rs, 1, n))
               rest == SubSeq(rs, n + 4, Len(rs))
               mer  == SkipSpaces(rest)
           IN  /\ rest = <<>> \/ mer \in {<<"A", "M">>, <<"P", "M">>}
               /\ h <= 24
               /\ rest # <<>> => h # 0
               /\ mer = <<"P", "M">> => h <= 12

\* C14: NewFromString accepts its input exactly when the input, trimmed and
\* upper-cased, has the shape D D? ':' [0-5] D followed by nothing or by
\* spaces and AM or PM, with an hour of at most 24, not 0 when a meridiem is
\* present and at most 12 when the meridiem is PM; it rejects every other input
\* with an error.
C14_AcceptedLanguage ==
    Returned("NewFromString") =>
        IF InLanguage(TrimSpace(ToUpper(call.timeSpec)))
        THEN result.tod # NIL /\ result.err = NIL
        ELSE result.tod = NIL /\ result.err # NIL

\* An accepted input with a space before its meridiem.
C14_Witness ==
    /\ Returned("NewFromString")
    /\ TrimSpace(ToUpper(call.timeSpec)) = <<"1", "2", ":", "5", "9", " ", "A", "M">>
    /\ InLanguage(TrimSpace(ToUpper(call.timeSpec)))
    /\ result.tod # NIL
    /\ result.tod.hour = 0
    /\ result.tod.minute = 59

\* tokenizeTimeSpec failed on a rune: it returned an error with runes left.
FailedOnRune == Returned("NewFromString") /\ err # NIL /\ pos < Len(runes)

\* C15: every failure of the scanner on a rune, in any state, case 7 included,
\* returns an error carrying the zero-based offset of that rune in the trimmed
\* input, which is the cursor, and the runes the state would have accepted.
C15_PositionalError ==
    FailedOnRune =>
        /\ err.msg = "Parse error at position"
        /\ err.position = pos
        /\ err.err.msg = "Invalid rune"
        /\ err.err.rune = runes[pos + 1]
        /\ err.err.expected = ValidRunes(state)

\* tokenizeTimeSpec returned after its loop ran out of input in state st.
EndedIn(st) == Returned("NewFromString") /\ pos >= Len(runes) /\ state = st

\* C16: when the input ends in state 0 (empty input), 3 (after the colon),
\* 4 (after one minute digit) or 6 (after A or P), tokenizeTimeSpec returns no
\* tokens and an end-of-input error naming what was expected: a number, or M
\* in state 6.
C16_EndOfInput ==
    \A st \in {0, 3, 4, 6} :
        EndedIn(st) =>
            /\ tokens = NIL
            /\ err = [msg |-> "Unexpected end of input",
                      expected |-> IF st = 6 THEN "M" ELSE "number"]
            /\ result = [tod |-> NIL, err |-> err]

\* "1:0" ends after one minute digit.
C16_Witness ==
    /\ EndedIn(4)
    /\ runes = <<"1", ":", "0">>
    /\ tokens = NIL
    /\ err.expected = "number"

\* A step of the loop consumes one rune and moves to the next state.
ConsumingStep == pos' = pos + 1 /\ state' = state + 1

\* A step of the loop looks ahead: only the state changes, 1 to 2 or 2 to 5.
LookAheadStep ==
    /\ pos' = pos
    /\ tokens' = tokens
    /\ <<state, state'>> \in {<<1, 2>>, <<2, 5>>}

\* A step of the loop skips a space before the meridiem.
SpaceSkipStep ==
    /\ state = 5
    /\ runes[pos + 1] = " "
    /\ pos' = pos + 1
    /\ state' = 5
    /\ tokens' = tokens

\* C17: in every step of tokenizeTimeSpec the cursor and the state number do
\* not decrease; a step that stays in the loop consumes exactly one rune, or
\* looks ahead (state 1 to 2 or 2 to 5, cursor and tokens unchanged), or skips
\* a space in state 5 (cursor + 1, state unchanged).
C17_SinglePass ==
    [][pc = "scan" =>
          /\ pos' >= pos
          /\ state' >= state
          /\ pc' = "scan" => ConsumingStep \/ LookAheadStep \/ SpaceSkipStep]_vars

\* Both look-ahead steps taken at one cursor position: "1" then A or P.
C17_Witness ==
    /\ pc = "scan"
    /\ state = 5
    /\ pos = 1
    /\ tokens = [Hour |-> <<"1">>, Minute |-> <<>>, Meridiem |-> <<>>]

\* C18: tokenizeTimeSpec terminates on every input: every iteration of its
\* loop advances the cursor or strictly increases the state, and a call that
\* has entered the loop returns.
C18_Terminates ==
    /\ [][pc = "scan" /\ pc' = "scan" => pos' > pos \/ state' > state]_vars
    /\ (pc = "scan") ~> (pc = "returned")

\* A call that returned after both look-ahead steps were taken at one cursor
\* position: "1P" ends in state 6.
C18_Witness ==
    /\ Returned("NewFromString")
    /\ runes = <<"1", "P">>
    /\ state = 6
    /\ pos = 2

\* C19: every input NewFromString accepts with meridiem AM yields an hour in
\* 0..11, and every input it accepts with meridiem PM an hour in 12..23.
C19_MeridiemConsistent ==
    Returned("NewFromString") /\ result.tod # NIL =>
        /\ tokens.Meridiem = <<"A", "M">> =>
              result.tod.hour \in 0..11 /\ Hour(result.tod) \subseteq 0..11
        /\ tokens.Meridiem = <<"P", "M">> =>
              result.tod.hour \in 12..23 /\ Hour(result.tod) \subseteq 12..23

\* The calendar day <<year, month, day>> of instant x in its own zone.
CalendarDay(x) == <<TimeYear(x), TimeMonth(x), TimeDay(x)>>

\* The seconds since midnight of instant x read in zone l.
SecondOfDay(x, l) ==
    Reading(x, l)[1] * 3600 + Reading(x, l)[2] * 60 + Reading(x, l)[3]

\* The reference is expressed in t's zone and that zone has one offset.
SameFixedZone == after.loc = t.loc /\ Cardinality(ZoneOffsets(t.loc)) = 1

\* C20: when the reference r is expressed in t's zone and that zone has a
\* fixed offset, NextAfter(t, r) is at or after r and less than 24 hours after
\* it; it is r exactly when r's wall clock is t.hour:t.minute:00; it is on r's
\* calendar day when that time of day has not passed, and on the following
\* calendar day otherwise.
C20_SameZoneWithinDay ==
    NextReturned /\ SameFixedZone =>
        /\ after.unix <= ret.unix
        /\ ret.unix < after.unix + 24 * 3600
        /\ ret.unix = after.unix <=> IsOccurrence(t, after)
        /\ IF SecondOfDay(after, t.loc) <= t.hour * 3600 + t.minute * 60
           THEN CalendarDay(ret) = CalendarDay(after)
           ELSE CalendarDay(ret) =
                   CalendarDay([unix |-> after.unix + 24 * 3600, loc |-> after.loc])

\* The time of day passed one second before the reference: the result is on
\* the following day, one second less than 24 hours later.
C20_Witness ==
    /\ FollowingDayTaken
    /\ SameFixedZone
    /\ SecondOfDay(after, t.loc) = t.hour * 3600 + t.minute * 60 + 1
    /\ ret.unix = after.unix + 24 * 3600 - 1

====
